---------------------------- MODULE Spec2Model ----------------------------
(***************************************************************************)
(* A model of ffmpeg_convert.py: the conversion policy (should_convert),   *)
(* the command synthesis (build_video_args, build_audio_args,              *)
(* convert_file), the subtitle pipeline (copy_subtitle_if_exists) and the  *)
(* batch driver (process_file and the main loop).                          *)
(*                                                                         *)
(* Codec labels that the policy matches on are sequences of one-character  *)
(* strings, so that upper(), startswith() and the '-' test are computed.   *)
(* Command-line tokens are TLA+ strings.  A bitrate in kbps is a float in  *)
(* the program; here it is an integer number of thousandths of a kbps      *)
(* (that is bits per second), so that int(bits)/1000 is exact.             *)
(***************************************************************************)
EXTENDS Integers, Sequences, FiniteSets, TLC

VARIABLES
    cfg,             \* the module globals of the configuration section
    args,            \* the parsed command line (parse_args)
    call,            \* the last call of a function checked in isolation
    history,         \* the commands synthesized so far, with their inputs
    fs,              \* the paths that exist in the directory
    media,           \* what the external prober reports for each input file
    pass,            \* the number of the batch run over the directory
    pending,         \* the files the traversal of this run has not visited
    cur,             \* the file being processed and the position in its handling
    counters,        \* total_files, converted, skipped, failed of the run
    converted_files, \* the run's list of converted files
    failed_files,    \* the run's list of failed files
    calls,           \* the external calls made so far, in order
    outcome          \* per pass and file: the file's terminal state, the reason,
                     \* and its place in the traversal

vars == <<cfg, args, call, history, fs, media, pass, pending, cur, counters,
          converted_files, failed_files, calls, outcome>>

batchVars == <<fs, media, pass, pending, cur, counters, converted_files,
               failed_files, calls, outcome>>

None == "None"

-----------------------------------------------------------------------------
(* Bounds of the model *)

\* longest label over the small alphabet that is enumerated exhaustively
MaxLabelLen == 2

\* the number of times the batch driver is run over the directory
MaxPasses == 2

-----------------------------------------------------------------------------
(* Strings as sequences of characters *)

\* str.upper on one character
UpperChar(c) ==
    CASE c = "a" -> "A" [] c = "c" -> "C" [] c = "d" -> "D" [] c = "e" -> "E"
      [] c = "g" -> "G" [] c = "h" -> "H" [] c = "i" -> "I" [] c = "m" -> "M"
      [] c = "p" -> "P" [] c = "s" -> "S" [] c = "t" -> "T" [] c = "v" -> "V"
      [] c = "x" -> "X" [] OTHER -> c

\* str.upper
upper(s) == [i \in 1..Len(s) |-> UpperChar(s[i])]

\* str.startswith
startswith(s, p) == Len(p) <= Len(s) /\ SubSeq(s, 1, Len(p)) = p

\* c in s
Contains(s, c) == \E i \in 1..Len(s) : s[i] = c

\* x in list
InList(x, list) == \E i \in 1..Len(list) : list[i] = x

\* [f(v) for v in list] with f = str.upper
UpperAll(list) == [i \in 1..Len(list) |-> upper(list[i])]

-----------------------------------------------------------------------------
(* Codec labels *)

MPEG4_XVID == <<"M","P","E","G","4","-","X","V","I","D">>
MPEG4_DX50 == <<"M","P","E","G","4","-","D","X","5","0">>
MPEG4 == <<"M","P","E","G","4">>
MPEG4_lower_xvid == <<"m","p","e","g","4","-","x","v","i","d">>
MPEG == <<"M","P","E","G">>
H264 == <<"H","2","6","4">>
h264_lower == <<"h","2","6","4">>
H264_AVC1 == <<"H","2","6","4","-","A","V","C","1">>
HEVC == <<"H","E","V","C">>

AC3 == <<"A","C","3">>
DTS == <<"D","T","S">>
dts_lower == <<"d","t","s">>
TRUEHD == <<"T","R","U","E","H","D">>
AAC == <<"A","A","C">>
EmptyStr == <<>>

\* a small alphabet whose labels are enumerated up to MaxLabelLen
SmallAlphabet == {"H", "h", "-"}

SmallLabels == UNION {[1..n -> SmallAlphabet] : n \in 0..MaxLabelLen}

VideoLabels ==
    {MPEG4_XVID, MPEG4_DX50, MPEG4, MPEG4_lower_xvid, MPEG, H264, H264_AVC1, HEVC}
        \cup (SmallLabels \ {EmptyStr})

AudioLabels == {AC3, DTS, dts_lower, TRUEHD, AAC, EmptyStr}

\* the values of FORCE_CONVERSION_VIDEO_CODECS as written in the configuration
\* section (the shipped one, the two commented-out ones, and variants)
RawForcedVideoLists ==
    {<<MPEG4_XVID>>, <<MPEG4_XVID, H264>>, <<MPEG4>>, <<>>, <<h264_lower, MPEG4_DX50>>,
     <<<<"H">>, <<"H", "-">>>>, <<<<"-", "H">>>>}

RawForcedAudioLists == {<<DTS, TRUEHD>>, <<>>, <<AC3, dts_lower>>}

\* bitrates in thousandths of a kbps
KbpsUnit == 1000

Bitrates == {0, 1999500, 2000000, 2000001, 2500000}

MaxBitrateSettings == {-1, 0, 2000, 2500}

-----------------------------------------------------------------------------
(* should_convert *)

\* the for loop over FORCE_CONVERSION_VIDEO_CODECS with its break
RECURSIVE ForcedVideoLoop(_, _, _)
ForcedVideoLoop(video_codec, list, i) ==
    IF i > Len(list) THEN FALSE
    ELSE LET forced_codec == list[i] IN
         IF Contains(forced_codec, "-")
         THEN IF upper(video_codec) = forced_codec THEN TRUE
              ELSE ForcedVideoLoop(video_codec, list, i + 1)
         ELSE IF startswith(upper(video_codec), forced_codec) THEN TRUE
              ELSE ForcedVideoLoop(video_codec, list, i + 1)

\* max_video_bitrate > 0 and bitrate_kbps > max_video_bitrate
OverLimit(bitrate_kbps, max_video_bitrate) ==
    max_video_bitrate > 0 /\ bitrate_kbps > max_video_bitrate * KbpsUnit

\* a slip: force mode forces the video stream only
should_convert_ForceVideoOnly(video_codec, audio_codec, bitrate_kbps, max_video_bitrate, force_mode_enabled) ==
    LET limit == OverLimit(bitrate_kbps, max_video_bitrate)
        byAudio == Len(cfg.FORCE_CONVERSION_AUDIO_CODECS) > 0
                    /\ InList(upper(audio_codec), cfg.FORCE_CONVERSION_AUDIO_CODECS)
        byCodec == ForcedVideoLoop(video_codec, cfg.FORCE_CONVERSION_VIDEO_CODECS, 1)
    IN  IF force_mode_enabled THEN <<TRUE, byAudio, limit>>
        ELSE <<byCodec \/ limit, byAudio, limit>>

\* a slip: the bitrate check only sets the flag, not convert_video
should_convert_LimitFlagOnly(video_codec, audio_codec, bitrate_kbps, max_video_bitrate, force_mode_enabled) ==
    LET limit == OverLimit(bitrate_kbps, max_video_bitrate)
        byAudio == Len(cfg.FORCE_CONVERSION_AUDIO_CODECS) > 0
                    /\ InList(upper(audio_codec), cfg.FORCE_CONVERSION_AUDIO_CODECS)
        byCodec == ForcedVideoLoop(video_codec, cfg.FORCE_CONVERSION_VIDEO_CODECS, 1)
    IN  IF force_mode_enabled THEN <<TRUE, TRUE, limit>>
        ELSE <<byCodec, byAudio, limit>>

\* returns <<convert_video, convert_audio, convert_video_force_bitrate_limit>>
should_convert(video_codec, audio_codec, bitrate_kbps, max_video_bitrate, force_mode_enabled) ==
    IF force_mode_enabled
    THEN <<TRUE, TRUE, OverLimit(bitrate_kbps, max_video_bitrate)>>
    ELSE LET byCodec == IF Len(cfg.FORCE_CONVERSION_VIDEO_CODECS) > 0
                        THEN ForcedVideoLoop(video_codec, cfg.FORCE_CONVERSION_VIDEO_CODECS, 1)
                        ELSE FALSE
             convert_audio == IF Len(cfg.FORCE_CONVERSION_AUDIO_CODECS) > 0
                              THEN InList(upper(audio_codec), cfg.FORCE_CONVERSION_AUDIO_CODECS)
                              ELSE FALSE
             limit == OverLimit(bitrate_kbps, max_video_bitrate)
         IN  <<byCodec \/ limit, convert_audio, limit>>

-----------------------------------------------------------------------------
(* Optional values, paths, tokens *)

\* Python's None and a present value, for a field that may be absent
Absent == <<>>
Some(v) == <<v>>
IsSome(o) == Len(o) = 1
Val(o) == o[1]

\* str.lower on one character
LowerChar(c) ==
    CASE c = "A" -> "a" [] c = "I" -> "i" [] c = "K" -> "k" [] c = "M" -> "m"
      [] c = "P" -> "p" [] c = "V" -> "v" [] OTHER -> c

\* str.lower
lower(s) == [i \in 1..Len(s) |-> LowerChar(s[i])]

\* the characters of s as one string (str() of a path part, f-string interpolation)
RECURSIVE Join(_)
Join(s) == IF Len(s) = 0 THEN "" ELSE s[1] \o Join(Tail(s))

ext_avi == <<".","a","v","i">>
ext_mkv == <<".","m","k","v">>
ext_MKV == <<".","M","K","V">>
ext_mp4 == <<".","m","p","4">>
ext_mpg == <<".","m","p","g">>
ext_mpeg == <<".","m","p","e","g">>
ext_mov == <<".","m","o","v">>
ext_wmv == <<".","w","m","v">>
ext_srt == <<".","s","r","t">>
ext_txt == <<".","t","x","t">>
conv_prefix == <<"c","o","n","v","-">>
utf8_tail == <<".","u","t","f","8">>

SUPPORTED_EXTENSIONS == <<ext_avi, ext_mkv, ext_mp4, ext_mpg, ext_mpeg, ext_mov, ext_wmv>>

\* a pathlib.Path inside the one directory: name = stem + suffix
MkPath(stem, suffix) == [stem |-> stem, suffix |-> suffix]

\* str(path)
PathStr(p) == Join(p.stem) \o Join(p.suffix)

\* path.with_suffix(".srt")
with_suffix(p, suffix) == MkPath(p.stem, suffix)

\* path.name.startswith("conv-")
HasConvPrefix(p) == startswith(p.stem \o p.suffix, conv_prefix)

\* process_file: output_ext and output_path
output_ext_of(file_path, force_mp4) ==
    IF force_mp4 THEN ext_mp4
    ELSE IF lower(file_path.suffix) = ext_mkv THEN ext_mkv ELSE ext_mp4

\* a slip: the output keeps the input's extension
output_path_KeepExt(file_path, force_mp4) ==
    MkPath(conv_prefix \o file_path.stem, lower(file_path.suffix))

output_path_of(file_path, force_mp4) ==
    MkPath(conv_prefix \o file_path.stem, output_ext_of(file_path, force_mp4))

-----------------------------------------------------------------------------
(* The configuration section *)

OUTPUT_VIDEO_CODEC == "libx265"
MULTITHREADING_ENABLED == TRUE
DEFAULT_CRF == "20"

aac == <<"a","a","c">>
ac3 == <<"a","c","3">>
eac3 == <<"e","a","c","3">>

br384k == <<"3","8","4","k">>
br448k == <<"4","4","8","k">>
br640k == <<"6","4","0","k">>
br768k == <<"7","6","8","k">>
br1024k == <<"1","0","2","4","k">>
br1536k == <<"1","5","3","6","k">>

\* BITRATE_AUDIO_MAP as shipped: a dict, here the set of its keys and its values
BITRATE_AUDIO_MAP_shipped ==
    (2 :> br384k) @@ (3 :> br448k) @@ (5 :> br768k) @@ (6 :> br768k)
        @@ (7 :> br1024k) @@ (8 :> br1536k)

\* an edited configuration: another bitrate for 5.1
BITRATE_AUDIO_MAP_edited ==
    (2 :> br384k) @@ (3 :> br448k) @@ (5 :> br640k) @@ (6 :> br640k)
        @@ (7 :> br1024k) @@ (8 :> br1536k)

\* NUMBER_OF_THREADS = multiprocessing.cpu_count(), capped
ThreadCap == 16
NumberOfThreads(cpu_count) == IF cpu_count > ThreadCap THEN ThreadCap ELSE cpu_count

CpuCounts == {4, 64}

\* the configuration as shipped, on a machine with 4 processing units and
\* after the main block has upper-cased the two forced lists
CfgShipped ==
    [FORCE_CONVERSION_VIDEO_CODECS |-> UpperAll(<<MPEG4_XVID>>),
     FORCE_CONVERSION_AUDIO_CODECS |-> UpperAll(<<DTS, TRUEHD>>),
     OUTPUT_AUDIO_CODEC |-> aac,
     DEFAULT_AUDIO_BITRATE |-> br768k,
     BITRATE_AUDIO_MAP |-> BITRATE_AUDIO_MAP_shipped,
     COPY_ALL_AUDIO_OR_VIDEO_STREAMS_OF_ALLOWED_CODECS |-> FALSE,
     NUMBER_OF_THREADS |-> NumberOfThreads(4)]

ArgsDefault ==
    [dry_run |-> FALSE, force_mode_enabled |-> FALSE, force_mp4 |-> FALSE,
     max_video_bitrate |-> 0, CRF |-> DEFAULT_CRF, is_file |-> FALSE,
     subs_only |-> FALSE]

-----------------------------------------------------------------------------
(* scan_file results *)

\* the "channels" value of the probe's JSON: absent, an integer or a string
ChNone == [t |-> "none"]
ChInt(n) == [t |-> "int", n |-> n]
ChStr(s) == [t |-> "str", s |-> s]

\* the dict scan_file returns; audio_metadata is {} when has_meta is FALSE
Descriptor(v, a, kbps, has_meta, ch, sr) ==
    [video_codec |-> v, audio_codec |-> a, bitrate_kbps |-> kbps,
     audio_metadata |-> [has_meta |-> has_meta, channels |-> ch, sample_rate |-> sr]]

\* the result of a probe that failed at its first call (line 208)
ScanFailed == Descriptor(Absent, Absent, 0, FALSE, ChNone, Absent)

\* probe results with both codecs detected
Detected ==
    {Descriptor(Some(MPEG4_XVID), Some(AC3), 1500000, TRUE, ChInt(6), Some("48000")),
     Descriptor(Some(H264), Some(DTS), 1500000, TRUE, ChInt(6), Some("48000")),
     Descriptor(Some(H264), Some(TRUEHD), 1500000, TRUE, ChInt(6), Some("48000")),
     Descriptor(Some(H264), Some(DTS), 1500000, TRUE, ChInt(6), Some("44100")),
     Descriptor(Some(H264), Some(DTS), 1500000, TRUE, ChInt(8), Some("48000")),
     Descriptor(Some(H264), Some(TRUEHD), 1500000, TRUE, ChNone, Some("48000")),
     Descriptor(Some(H264), Some(DTS), 1500000, TRUE, ChStr(<<"x">>), Some("44100")),
     Descriptor(Some(H264), Some(DTS), 1500000, TRUE, ChStr(<<"5", ".", "1">>), Absent),
     Descriptor(Some(MPEG4_XVID), Some(DTS), 2500000, TRUE, ChStr(<<"7", ".", "1">>), Some("48000")),
     Descriptor(Some(HEVC), Some(AAC), 2500000, TRUE, ChInt(2), Some("48000")),
     Descriptor(Some(H264), Some(DTS), 1500000, TRUE, ChInt(1), Some("48000")),
     Descriptor(Some(H264), Some(DTS), 1500000, TRUE, ChInt(9), Some("48000")),
     Descriptor(Some(H264), Some(DTS), 1500000, TRUE, ChInt(0), Some("48000"))}

-----------------------------------------------------------------------------
(* build_video_args *)

\* a slip: the buffer size is the ceiling itself
build_video_args_BufsizeEqualsRate(convert_video, crf, force_bitrate_limit, max_video_bitrate) ==
    IF convert_video
    THEN <<"-map", "0:v:0", "-c:v", OUTPUT_VIDEO_CODEC, "-preset", "fast", "-crf", crf>>
            \o (IF force_bitrate_limit /\ max_video_bitrate > 0
                THEN <<"-x265-params", "vbv-maxrate=" \o ToString(max_video_bitrate)
                                        \o ":vbv-bufsize=" \o ToString(max_video_bitrate)>>
                ELSE <<>>)
    ELSE (IF cfg.COPY_ALL_AUDIO_OR_VIDEO_STREAMS_OF_ALLOWED_CODECS
          THEN <<"-map", "0:v">> ELSE <<"-map", "0:v:0">>)
            \o <<"-c:v", "copy">>

build_video_args(convert_video, crf, force_bitrate_limit, max_video_bitrate) ==
    IF convert_video
    THEN LET target_kbps == IF force_bitrate_limit /\ max_video_bitrate > 0
                            THEN Some(max_video_bitrate) ELSE Absent
             \* "if target_kbps" is false for None and for 0
             truthy == IsSome(target_kbps) /\ Val(target_kbps) # 0
             x265_options ==
                 IF truthy
                 THEN <<"vbv-maxrate=" \o ToString(Val(target_kbps)),
                        "vbv-bufsize=" \o ToString(Val(target_kbps) * 2)>>
                 ELSE <<>>
         IN  <<"-map", "0:v:0", "-c:v", OUTPUT_VIDEO_CODEC, "-preset", "fast", "-crf", crf>>
                \o (IF Len(x265_options) > 0
                    THEN <<"-x265-params", x265_options[1] \o ":" \o x265_options[2]>>
                    ELSE <<>>)
    ELSE (IF cfg.COPY_ALL_AUDIO_OR_VIDEO_STREAMS_OF_ALLOWED_CODECS
          THEN <<"-map", "0:v">> ELSE <<"-map", "0:v:0">>)
            \o <<"-c:v", "copy">>

-----------------------------------------------------------------------------
(* build_audio_args *)

Digits == {"0", "1", "2", "3", "4", "5", "6", "7", "8", "9"}

\* int() of one digit
DigitVal(c) ==
    CASE c = "0" -> 0 [] c = "1" -> 1 [] c = "2" -> 2 [] c = "3" -> 3 [] c = "4" -> 4
      [] c = "5" -> 5 [] c = "6" -> 6 [] c = "7" -> 7 [] c = "8" -> 8 [] c = "9" -> 9

\* a changed normalisation: the default of 6 channels is also put in ch_num
ChannelCount_DefaultSix(ch) ==
    IF ch.t = "int" THEN Some(ch.n)
    ELSE IF ch.t = "str" /\ Len(ch.s) >= 1 /\ ch.s[1] \in Digits
         THEN Some(DigitVal(ch.s[1])
                   + (IF Len(ch.s) >= 3 /\ ch.s[2] = "." /\ ch.s[3] \in Digits
                      THEN DigitVal(ch.s[3]) ELSE 0))
         ELSE Some(6)

\* ch_num of lines 445-454: re.match(r"(\d)(?:\.(\d))?", ch) on a string
ChannelCount(ch) ==
    IF ch.t = "int" THEN Some(ch.n)
    ELSE IF ch.t = "str"
         THEN IF Len(ch.s) >= 1 /\ ch.s[1] \in Digits
              THEN LET front == DigitVal(ch.s[1])
                       lfe == IF Len(ch.s) >= 3 /\ ch.s[2] = "." /\ ch.s[3] \in Digits
                              THEN DigitVal(ch.s[3]) ELSE 0
                   IN  Some(front + lfe)
              ELSE Absent
         ELSE Absent

\* ch_desc of lines 456-470
ChannelDesc(ch_num) ==
    IF IsSome(ch_num)
    THEN LET n == Val(ch_num) IN
         IF n > 8 THEN ToString(n) \o "ch"
         ELSE IF n = 8 THEN "7.1"
         ELSE IF n = 6 THEN "5.1"
         ELSE IF n = 2 THEN "2.0"
         ELSE IF n = 1 THEN "Mono"
         ELSE ToString(n) \o "ch"
    ELSE "5.1"

\* OUTPUT_AUDIO_CODEC.upper() in ["AC3", "EAC3"]
CappedCodec == upper(cfg.OUTPUT_AUDIO_CODEC) \in {upper(ac3), upper(eac3)}

\* a slip: the clamp changes the label and leaves the channel count
AudioDerivation_ClampLabelOnly(ch) ==
    LET ch_num == ChannelCount(ch)
        desc0 == ChannelDesc(ch_num)
        bitrate == IF IsSome(ch_num) /\ Val(ch_num) \in DOMAIN cfg.BITRATE_AUDIO_MAP
                   THEN cfg.BITRATE_AUDIO_MAP[Val(ch_num)]
                   ELSE cfg.DEFAULT_AUDIO_BITRATE
    IN  [ch_num |-> ch_num,
         ch_desc |-> IF CappedCodec /\ desc0 = "7.1" THEN "5.1" ELSE desc0,
         bitrate |-> bitrate]

\* ch_num, ch_desc after the clamp of lines 472-474, and the bitrate of line 476
AudioDerivation(ch) ==
    LET num0 == ChannelCount(ch)
        desc0 == ChannelDesc(num0)
        clamp == CappedCodec /\ desc0 = "7.1"
        ch_num == IF clamp THEN Some(6) ELSE num0
        ch_desc == IF clamp THEN "5.1" ELSE desc0
        bitrate == IF IsSome(ch_num) /\ Val(ch_num) \in DOMAIN cfg.BITRATE_AUDIO_MAP
                   THEN cfg.BITRATE_AUDIO_MAP[Val(ch_num)]
                   ELSE cfg.DEFAULT_AUDIO_BITRATE
    IN  [ch_num |-> ch_num, ch_desc |-> ch_desc, bitrate |-> bitrate]

\* bitrate.replace('k', '000')
RECURSIVE ReplaceK(_)
ReplaceK(s) ==
    IF Len(s) = 0 THEN <<>>
    ELSE (IF Head(s) = "k" THEN <<"0", "0", "0">> ELSE <<Head(s)>>) \o ReplaceK(Tail(s))

\* audio_info.get("sample_rate", "?") as the f-string prints it
SampleRateText(audio_metadata) ==
    IF ~audio_metadata.has_meta THEN "?"
    ELSE IF IsSome(audio_metadata.sample_rate) THEN Val(audio_metadata.sample_rate)
    ELSE None

AudioTitle(desc, sr, bitrate) ==
    "title='" \o Join(upper(cfg.OUTPUT_AUDIO_CODEC)) \o " Audio / " \o desc \o " / "
        \o sr \o " Hz / " \o Join(bitrate) \o "'"

\* a slip: the title names the codec the audio is converted from
build_audio_args_TitleFromSource(input_path, convert_audio, original_audio_codec, scan_result) ==
    IF convert_audio
    THEN LET d == AudioDerivation(scan_result.audio_metadata.channels) IN
         <<"-map", "0:a:0", "-map_metadata", "-1", "-c:a", Join(cfg.OUTPUT_AUDIO_CODEC),
           "-b:a", Join(d.bitrate), "-metadata:s:a:0",
           "title='" \o Join(original_audio_codec) \o " to "
              \o Join(upper(cfg.OUTPUT_AUDIO_CODEC)) \o " / " \o d.ch_desc \o " / "
              \o SampleRateText(scan_result.audio_metadata) \o " Hz'",
           "-ar", "48000">>
    ELSE <<"-map", "0:a:0", "-c:a", "copy">>

\* scan_result is what scan_func(input_path) returns at line 441
build_audio_args(input_path, convert_audio, original_audio_codec, scan_result) ==
    IF convert_audio
    THEN LET audio_info == scan_result.audio_metadata
             ch == IF audio_info.has_meta THEN audio_info.channels ELSE ChNone
             d == AudioDerivation(ch)
         IN  <<"-map", "0:a:0", "-map_metadata", "-1", "-c:a", Join(cfg.OUTPUT_AUDIO_CODEC)>>
                \o <<"-b:a", Join(d.bitrate)>>
                \o <<"-metadata:s:a:0",
                     AudioTitle(d.ch_desc, SampleRateText(audio_info), d.bitrate)>>
                \o (IF CappedCodec THEN <<"-ac", "6", "-channel_layout", "5.1">>
                    ELSE IF IsSome(d.ch_num) /\ Val(d.ch_num) # 0 /\ Val(d.ch_num) > 2
                         THEN <<"-ac", ToString(Val(d.ch_num))>>
                         ELSE <<>>)
                \o <<"-ar", "48000">>
                \o <<"-metadata:s:a:0", "BPS=" \o Join(ReplaceK(d.bitrate))>>
    ELSE (IF cfg.COPY_ALL_AUDIO_OR_VIDEO_STREAMS_OF_ALLOWED_CODECS
          THEN <<"-map", "0:a">> ELSE <<"-map", "0:a:0">>)
            \o <<"-c:a", "copy">>

-----------------------------------------------------------------------------
(* convert_file: the command *)

SubtitleCopy == <<"-map", "0:s?", "-c:s", "copy">>

\* a slip: the subtitle copy is decided by the input container alone
convert_file_cmd_InputMkvOnly(input_path, output_path, convert_video, convert_audio, original_audio_codec, crf, force_bitrate_limit, max_video_bitrate, scan_result) ==
    <<"ffmpeg", "-y", "-i", PathStr(input_path)>>
        \o (IF lower(input_path.suffix) = ext_mkv THEN SubtitleCopy ELSE <<>>)
        \o build_video_args(convert_video, crf, force_bitrate_limit, max_video_bitrate)
        \o build_audio_args(input_path, convert_audio, original_audio_codec, scan_result)
        \o <<"-threads", ToString(cfg.NUMBER_OF_THREADS)>>
        \o <<PathStr(output_path)>>

\* cmd of lines 506-520
convert_file_cmd(input_path, output_path, convert_video, convert_audio, original_audio_codec, crf, force_bitrate_limit, max_video_bitrate, scan_result) ==
    <<"ffmpeg", "-y", "-i", PathStr(input_path)>>
        \o (IF lower(input_path.suffix) = ext_mkv /\ lower(output_path.suffix) = ext_mkv
            THEN SubtitleCopy ELSE <<>>)
        \o build_video_args(convert_video, crf, force_bitrate_limit, max_video_bitrate)
        \o build_audio_args(input_path, convert_audio, original_audio_codec, scan_result)
        \o (IF MULTITHREADING_ENABLED
            THEN <<"-threads", ToString(cfg.NUMBER_OF_THREADS)>> ELSE <<>>)
        \o <<PathStr(output_path)>>

-----------------------------------------------------------------------------
(* The policy in isolation: should_convert applied to drawn inputs *)

NoCall == [fn |-> "none"]

\* the batch driver's state when no batch is run
BatchIdle ==
    /\ fs = {}
    /\ media = <<>>
    /\ pass = 0
    /\ pending = {}
    /\ cur = [pc |-> "idle"]
    /\ counters = [total_files |-> 0, converted |-> 0, skipped |-> 0, failed |-> 0]
    /\ converted_files = <<>>
    /\ failed_files = <<>>
    /\ calls = <<>>
    /\ outcome = <<>>

InitPolicy ==
    /\ \E rv \in RawForcedVideoLists, ra \in RawForcedAudioLists :
          cfg = [CfgShipped EXCEPT !.FORCE_CONVERSION_VIDEO_CODECS = UpperAll(rv),
                                   !.FORCE_CONVERSION_AUDIO_CODECS = UpperAll(ra)]
    /\ \E m \in MaxBitrateSettings, f \in BOOLEAN :
          args = [ArgsDefault EXCEPT !.max_video_bitrate = m, !.force_mode_enabled = f]
    /\ call = NoCall
    /\ history = <<>>
    /\ BatchIdle

\* process_file's call of should_convert on a detected pair of codecs
ShouldConvert ==
    \E v \in VideoLabels, a \in AudioLabels, b \in Bitrates :
        /\ call = NoCall
        /\ call' = [fn |-> "should_convert", video_codec |-> v, audio_codec |-> a,
                    bitrate_kbps |-> b,
                    ret |-> should_convert(v, a, b, args.max_video_bitrate,
                                           args.force_mode_enabled)]
        /\ UNCHANGED <<cfg, args, history>>
        /\ UNCHANGED batchVars

NextPolicy == ShouldConvert

SpecPolicy == InitPolicy /\ [][NextPolicy]_vars

PolicyCalled == call.fn = "should_convert"

\* C1: with force mode enabled the decision is convert_video = convert_audio =
\* TRUE, whatever the codec labels, the bitrate, the threshold and the lists.
C1_ForceConvertsBoth ==
    (PolicyCalled /\ args.force_mode_enabled)
        => (call.ret[1] = TRUE /\ call.ret[2] = TRUE)

\* C1 witness: force mode, a codec pair on no forced list, threshold 0.
C1_Witness ==
    /\ PolicyCalled /\ args.force_mode_enabled
    /\ args.max_video_bitrate = 0
    /\ call.video_codec = HEVC /\ call.audio_codec = AAC
    /\ cfg.FORCE_CONVERSION_VIDEO_CODECS = <<MPEG4_XVID>>
    /\ call.ret = <<TRUE, TRUE, FALSE>>

\* the bare codec name of a label "NAME-TAG": the part before the first '-'
RECURSIVE BareName(_)
BareName(label) ==
    IF Len(label) = 0 \/ Head(label) = "-" THEN <<>>
    ELSE <<Head(label)>> \o BareName(Tail(label))

\* the matching rule of the data model: an entry with '-' matches the whole
\* upper-cased label, any other entry matches as a prefix of the bare name
MatchesForcedVideo(label) ==
    \E i \in 1..Len(cfg.FORCE_CONVERSION_VIDEO_CODECS) :
        LET e == cfg.FORCE_CONVERSION_VIDEO_CODECS[i] IN
        IF \E k \in 1..Len(e) : e[k] = "-"
        THEN upper(label) = e
        ELSE /\ Len(e) <= Len(BareName(upper(label)))
             /\ \A k \in 1..Len(e) : BareName(upper(label))[k] = e[k]

ThresholdExceeded ==
    args.max_video_bitrate > 0
        /\ call.bitrate_kbps > args.max_video_bitrate * KbpsUnit

\* C2: without force mode convert_video is (rule match or threshold exceeded),
\* convert_audio is exact membership of the upper-cased audio codec, and the
\* flag is the threshold check; scenarios A and C hold.
C2_RuleDecision ==
    (PolicyCalled /\ ~args.force_mode_enabled) =>
        /\ call.ret[1] = (MatchesForcedVideo(call.video_codec) \/ ThresholdExceeded)
        /\ call.ret[2] = (\E i \in 1..Len(cfg.FORCE_CONVERSION_AUDIO_CODECS) :
                             cfg.FORCE_CONVERSION_AUDIO_CODECS[i] = upper(call.audio_codec))
        /\ call.ret[3] = ThresholdExceeded
        /\ (/\ call.video_codec = MPEG4_XVID /\ call.audio_codec = AC3
            /\ cfg.FORCE_CONVERSION_VIDEO_CODECS = <<MPEG4_XVID>>
            /\ cfg.FORCE_CONVERSION_AUDIO_CODECS = <<DTS, TRUEHD>>)
              => (call.ret[1] = TRUE /\ call.ret[2] = FALSE)
        /\ (args.max_video_bitrate = 2000 /\ call.bitrate_kbps = 2500000)
              => (call.ret[1] = TRUE /\ call.ret[3] = TRUE)

\* C2 witness: scenario C, a codec on no forced list converted by bitrate alone.
C2_Witness ==
    /\ PolicyCalled /\ ~args.force_mode_enabled
    /\ args.max_video_bitrate = 2000 /\ call.bitrate_kbps = 2500000
    /\ call.video_codec = HEVC /\ call.audio_codec = AC3
    /\ cfg.FORCE_CONVERSION_VIDEO_CODECS = <<MPEG4_XVID>>
    /\ cfg.FORCE_CONVERSION_AUDIO_CODECS = <<DTS, TRUEHD>>
    /\ call.ret = <<TRUE, FALSE, TRUE>>

\* a prefix rule reached: entry MPEG4 (no '-') against label MPEG4-XVID
C2_PrefixReached ==
    /\ PolicyCalled /\ ~args.force_mode_enabled
    /\ cfg.FORCE_CONVERSION_VIDEO_CODECS = <<MPEG4>>
    /\ call.video_codec = MPEG4_lower_xvid
    /\ ~ThresholdExceeded
    /\ call.ret[1] = TRUE

-----------------------------------------------------------------------------
(* The command synthesis in isolation: process_file up to convert_file's    *)
(* command, on one input file, invoked once and then once more              *)

a_avi == MkPath(<<"a">>, ext_avi)
b_mkv == MkPath(<<"b">>, ext_mkv)
c_MKV == MkPath(<<"c">>, ext_MKV)

CmdFiles == {a_avi, b_mkv, c_MKV}

CrfSettings == {DEFAULT_CRF, "28"}

\* --max-video-bitrate: not given, and two thresholds, one of them the bitrate
\* some probe results report
CmdBitrateSettings == {0, 1500, 2000}

InitCmd ==
    /\ \E f \in BOOLEAN, mp4 \in BOOLEAN, m \in CmdBitrateSettings, crf \in CrfSettings :
          args = [ArgsDefault EXCEPT !.force_mode_enabled = f, !.force_mp4 = mp4,
                                     !.max_video_bitrate = m, !.CRF = crf]
    /\ \E oc \in {aac, ac3, eac3}, all \in BOOLEAN, cpu \in CpuCounts,
          edited \in BOOLEAN :
          cfg = [CfgShipped EXCEPT
                   !.OUTPUT_AUDIO_CODEC = oc,
                   \* line 649: --output-mp4 resets the setting
                   !.COPY_ALL_AUDIO_OR_VIDEO_STREAMS_OF_ALLOWED_CODECS =
                        IF args.force_mp4 THEN FALSE ELSE all,
                   !.NUMBER_OF_THREADS = NumberOfThreads(cpu),
                   !.BITRATE_AUDIO_MAP = IF edited THEN BITRATE_AUDIO_MAP_edited
                                         ELSE BITRATE_AUDIO_MAP_shipped,
                   !.DEFAULT_AUDIO_BITRATE = IF edited THEN br384k ELSE br768k]
    /\ call = NoCall
    /\ history = <<>>
    /\ BatchIdle

\* process_file from the scan to convert_file's command, for a file whose probe
\* result is d; the record keeps the inputs and the command
Synthesis(file_path, d) ==
    LET output_path == output_path_of(file_path, args.force_mp4)
        dec == should_convert(Val(d.video_codec), Val(d.audio_codec), d.bitrate_kbps,
                              args.max_video_bitrate, args.force_mode_enabled)
    IN  [fn |-> "convert_file",
         input_path |-> file_path,
         output_path |-> output_path,
         convert_video |-> dec[1],
         convert_audio |-> dec[2],
         force_bitrate_limit |-> dec[3],
         original_video_codec |-> Val(d.video_codec),
         original_audio_codec |-> Val(d.audio_codec),
         scan |-> d,
         cmd |-> convert_file_cmd(file_path, output_path, dec[1], dec[2],
                                  Val(d.audio_codec), args.CRF, dec[3],
                                  args.max_video_bitrate, d)]

ReachesConvertFile(d) ==
    LET dec == should_convert(Val(d.video_codec), Val(d.audio_codec), d.bitrate_kbps,
                              args.max_video_bitrate, args.force_mode_enabled)
    IN  dec[1] \/ dec[2]

FirstSynthesis ==
    \E file_path \in CmdFiles, d \in Detected :
        /\ call = NoCall
        /\ ReachesConvertFile(d)
        /\ call' = Synthesis(file_path, d)
        /\ UNCHANGED <<cfg, args, history>>
        /\ UNCHANGED batchVars

\* the same file handled again (a later run), the probe reporting d
SecondSynthesis ==
    \E d \in Detected :
        /\ call # NoCall
        /\ history = <<>>
        /\ ReachesConvertFile(d)
        /\ history' = <<call>>
        /\ call' = Synthesis(call.input_path, d)
        /\ UNCHANGED <<cfg, args>>
        /\ UNCHANGED batchVars

NextCmd == FirstSynthesis \/ SecondSynthesis

SpecCmd == InitCmd /\ [][NextCmd]_vars

-----------------------------------------------------------------------------
(* Claims about the command *)

CmdBuilt == call.fn = "convert_file"

\* the positions of a token in a command
Positions(cmd, tok) == {i \in 1..Len(cmd) : cmd[i] = tok}

\* the first position of a token that occurs in the command
First(cmd, tok) == CHOOSE i \in Positions(cmd, tok) : \A j \in Positions(cmd, tok) : i <= j

VideoTokens == {"-c:v", "-preset", "-crf", "-x265-params", "0:v:0", "0:v"}

AudioTokens == {"-c:a", "-b:a", "-ar", "-ac", "-channel_layout", "-map_metadata",
                "-metadata:s:a:0", "0:a:0", "0:a"}

BothMkv ==
    /\ lower(call.input_path.suffix) = ext_mkv
    /\ lower(call.output_path.suffix) = ext_mkv

\* C8: the command is input, subtitle copy (exactly when input and output are
\* .mkv, compared in lower case), video block, audio block, -threads n with
\* n <= 16, output path.
C8_CommandOrder ==
    CmdBuilt =>
        LET cmd == call.cmd
            n == Len(cmd)
            v0 == IF BothMkv THEN 9 ELSE 5
        IN  /\ n >= 12
            /\ SubSeq(cmd, 1, 4) = <<"ffmpeg", "-y", "-i", PathStr(call.input_path)>>
            /\ BothMkv <=> (Positions(cmd, "0:s?") # {} \/ Positions(cmd, "-c:s") # {})
            /\ BothMkv => SubSeq(cmd, 5, 8) = <<"-map", "0:s?", "-c:s", "copy">>
            /\ cmd[v0] = "-map" /\ cmd[v0 + 1] \in {"0:v:0", "0:v"} /\ cmd[v0 + 2] = "-c:v"
            /\ Cardinality(Positions(cmd, "-c:v")) = 1
            /\ Cardinality(Positions(cmd, "-c:a")) = 1
            /\ Cardinality(Positions(cmd, "0:a:0") \cup Positions(cmd, "0:a")) = 1
            /\ Positions(cmd, "-threads") = {n - 2}
            /\ LET am == (CHOOSE i \in 1..n : cmd[i] \in {"0:a:0", "0:a"}) - 1
               IN  /\ cmd[am] = "-map"
                   /\ \A i \in 1..n :
                        /\ cmd[i] \in VideoTokens => (v0 <= i /\ i < am)
                        /\ cmd[i] \in AudioTokens => (am <= i /\ i < n - 2)
                   /\ \A i \in v0..(n - 3) :
                        cmd[i] = "-map" => (i = v0 \/ i = am)
            /\ \E k \in 1..16 : cmd[n - 1] = ToString(k)
            /\ cmd[n] = PathStr(call.output_path)

\* C8 witness: an .mkv input with .mkv output, both streams converted: the
\* subtitle copy sits between the input and the video block.
C8_Witness ==
    /\ CmdBuilt /\ BothMkv
    /\ call.convert_video /\ call.convert_audio
    /\ call.cmd[6] = "0:s?" /\ call.cmd[10] = "0:v:0"
    /\ call.cmd[Len(call.cmd) - 1] = "16"

\* an upper-case .MKV input forced to MP4: no subtitle copy
C8_NoCopyReached ==
    /\ CmdBuilt /\ call.input_path = c_MKV /\ args.force_mp4
    /\ Positions(call.cmd, "0:s?") = {}

SameInputs ==
    /\ CmdBuilt /\ Len(history) = 1
    /\ history[1].input_path = call.input_path
    /\ history[1].output_path = call.output_path
    /\ history[1].convert_video = call.convert_video
    /\ history[1].convert_audio = call.convert_audio
    /\ history[1].force_bitrate_limit = call.force_bitrate_limit

\* C9 as claimed: two invocations with the same paths, decision and
\* configuration give the same command, whatever the probe reports.
C9_SameInputsSameCommand == SameInputs => history[1].cmd = call.cmd

\* C9 as amended: two invocations with the same paths, decision, configuration
\* and the same probed audio channels and sample rate give the same command;
\* the other probe fields and the original codecs do not matter.
C9_SameInputsAndAudioMetadataSameCommand ==
    (SameInputs /\ history[1].scan.audio_metadata = call.scan.audio_metadata)
        => history[1].cmd = call.cmd

\* C9 witness: the second probe reports another audio codec with the same
\* channels and sample rate, audio is converted, and the commands agree.
C9_Witness ==
    /\ SameInputs /\ call.convert_audio
    /\ history[1].scan.audio_metadata = call.scan.audio_metadata
    /\ history[1].scan # call.scan
    /\ history[1].original_audio_codec # call.original_audio_codec
    /\ history[1].cmd = call.cmd

\* the probed channel value is absent or a string the pattern does not match
ChannelsUnknown ==
    LET m == call.scan.audio_metadata IN
    \/ ~m.has_meta
    \/ m.channels.t = "none"
    \/ (m.channels.t = "str"
          /\ (Len(m.channels.s) = 0 \/ m.channels.s[1] \notin Digits))

\* the tokens of the command from the audio -map up to -threads
AudioBlock(cmd) ==
    SubSeq(cmd, (CHOOSE i \in 1..Len(cmd) : cmd[i] \in {"0:a:0", "0:a"}) - 1,
           Len(cmd) - 3)

\* C10 as claimed: with unknown channels the audio directives are those of an
\* integer channel count of 6 (label, bitrate of key 6, explicit -ac 6).
C10_UnknownChannelsAsSix ==
    (CmdBuilt /\ call.convert_audio /\ ChannelsUnknown) =>
        AudioBlock(call.cmd) =
            build_audio_args(call.input_path, TRUE, call.original_audio_codec,
                [call.scan EXCEPT !.audio_metadata.has_meta = TRUE,
                                  !.audio_metadata.channels = ChInt(6)])

\* C10 as amended: with unknown channels the label is "5.1", the bitrate is
\* DEFAULT_AUDIO_BITRATE, AC3/EAC3 get their fixed "-ac 6 -channel_layout 5.1",
\* and any other output codec gets no -ac directive at all.
C10_UnknownChannelsLabelOnly ==
    (CmdBuilt /\ call.convert_audio /\ ChannelsUnknown) =>
        LET cmd == call.cmd
            capped == upper(cfg.OUTPUT_AUDIO_CODEC) \in {AC3, <<"E", "A", "C", "3">>}
        IN  /\ cmd[First(cmd, "-b:a") + 1] = Join(cfg.DEFAULT_AUDIO_BITRATE)
            /\ cmd[First(cmd, "-metadata:s:a:0") + 1] =
                   AudioTitle("5.1", SampleRateText(call.scan.audio_metadata),
                              cfg.DEFAULT_AUDIO_BITRATE)
            /\ capped => /\ Cardinality(Positions(cmd, "-ac")) = 1
                         /\ SubSeq(cmd, First(cmd, "-ac"), First(cmd, "-ac") + 3)
                              = <<"-ac", "6", "-channel_layout", "5.1">>
            /\ ~capped => Positions(cmd, "-ac") = {}

\* C10 witness: channels "x", output codec aac: label 5.1, no -ac directive.
C10_Witness ==
    /\ CmdBuilt /\ call.convert_audio
    /\ call.scan.audio_metadata.channels = ChStr(<<"x">>)
    /\ cfg.OUTPUT_AUDIO_CODEC = aac
    /\ Positions(call.cmd, "-ac") = {}
    /\ call.cmd[First(call.cmd, "-b:a") + 1] = "768k"

\* the probe reports 8 channels, as the integer or as the string "7.1"
SourceEight ==
    LET m == call.scan.audio_metadata IN
    m.has_meta /\ m.channels \in {ChInt(8), ChStr(<<"7", ".", "1">>)}

\* C11: audio converted from 8 channels: to AC3 or EAC3 the label is "5.1",
\* the bitrate is the map's entry for 6 and the command forces "-ac 6
\* -channel_layout 5.1"; to any other codec the label is "7.1", the bitrate is
\* the map's entry for 8 and the command says "-ac 8".
C11_EightChannelClamp ==
    (CmdBuilt /\ call.convert_audio /\ SourceEight) =>
        LET cmd == call.cmd
            capped == upper(cfg.OUTPUT_AUDIO_CODEC) \in {AC3, <<"E", "A", "C", "3">>}
            sr == SampleRateText(call.scan.audio_metadata)
            at == First(cmd, "-ac")
        IN  /\ Cardinality(Positions(cmd, "-ac")) = 1
            /\ capped =>
                  /\ cmd[First(cmd, "-b:a") + 1] = Join(cfg.BITRATE_AUDIO_MAP[6])
                  /\ cmd[First(cmd, "-metadata:s:a:0") + 1]
                        = AudioTitle("5.1", sr, cfg.BITRATE_AUDIO_MAP[6])
                  /\ SubSeq(cmd, at, at + 3) = <<"-ac", "6", "-channel_layout", "5.1">>
            /\ ~capped =>
                  /\ cmd[First(cmd, "-b:a") + 1] = Join(cfg.BITRATE_AUDIO_MAP[8])
                  /\ cmd[First(cmd, "-metadata:s:a:0") + 1]
                        = AudioTitle("7.1", sr, cfg.BITRATE_AUDIO_MAP[8])
                  /\ SubSeq(cmd, at, at + 1) = <<"-ac", "8">>
                  /\ Positions(cmd, "-channel_layout") = {}

\* C11 witness: 8 channels converted to EAC3 with the edited map: the bitrate
\* is the entry of key 6.
C11_Witness ==
    /\ CmdBuilt /\ call.convert_audio
    /\ call.scan.audio_metadata.channels = ChInt(8)
    /\ cfg.OUTPUT_AUDIO_CODEC = eac3
    /\ cfg.BITRATE_AUDIO_MAP = BITRATE_AUDIO_MAP_edited
    /\ call.cmd[First(call.cmd, "-b:a") + 1] = "640k"
    /\ Positions(call.cmd, "-channel_layout") # {}

\* the other side: 8 channels converted to AAC keep "-ac 8"
C11_UncappedReached ==
    /\ CmdBuilt /\ call.convert_audio /\ SourceEight
    /\ cfg.OUTPUT_AUDIO_CODEC = aac
    /\ call.cmd[First(call.cmd, "-b:a") + 1] = "1536k"
    /\ call.cmd[First(call.cmd, "-ac") + 1] = "8"

\* the bitrate cap was triggered for the file of the call
CapTriggered ==
    /\ args.max_video_bitrate > 0
    /\ call.scan.bitrate_kbps > args.max_video_bitrate * KbpsUnit

\* C12: when video is converted, the command has -x265-params exactly when the
\* cap was triggered, in force mode and in rule mode, and then it reads
\* vbv-maxrate = the threshold and vbv-bufsize = twice the threshold.
C12_RateControlExactlyWhenCapped ==
    (CmdBuilt /\ call.convert_video) =>
        LET cmd == call.cmd
            M == args.max_video_bitrate
        IN  /\ call.force_bitrate_limit = CapTriggered
            /\ CapTriggered =>
                  /\ Cardinality(Positions(cmd, "-x265-params")) = 1
                  /\ cmd[First(cmd, "-x265-params") + 1]
                        = "vbv-maxrate=" \o ToString(M) \o ":vbv-bufsize=" \o ToString(2 * M)
            /\ ~CapTriggered =>
                  \A i \in 1..Len(cmd) :
                      cmd[i] \notin {"-x265-params", "-maxrate", "-bufsize"}

\* C12 witness: force mode, 2500 kbps over a threshold of 1500: ceiling 1500,
\* buffer 3000.
C12_Witness ==
    /\ CmdBuilt /\ call.convert_video /\ args.force_mode_enabled
    /\ args.max_video_bitrate = 1500 /\ call.scan.bitrate_kbps = 2500000
    /\ call.cmd[First(call.cmd, "-x265-params") + 1] = "vbv-maxrate=1500:vbv-bufsize=3000"

\* a bitrate equal to the threshold does not trigger the cap
C12_AtThresholdReached ==
    /\ CmdBuilt /\ call.convert_video
    /\ args.max_video_bitrate = 1500 /\ call.scan.bitrate_kbps = 1500000
    /\ Positions(call.cmd, "-x265-params") = {}

\* C13 as claimed: when the output is .mp4 the command never maps all streams
\* of a kind, whatever the configured copy-all setting.
C13_Mp4OutputCopiesFirstStreamOnly ==
    (CmdBuilt /\ call.output_path.suffix = ext_mp4) =>
        \A i \in 1..Len(call.cmd) : call.cmd[i] \notin {"0:v", "0:a"}

\* what the code guarantees: with --output-mp4 given no command maps all
\* streams of a kind
C13_ForceMp4CopiesFirstStreamOnly ==
    (CmdBuilt /\ args.force_mp4) =>
        \A i \in 1..Len(call.cmd) : call.cmd[i] \notin {"0:v", "0:a"}

\* C13 failing case: a.avi without --output-mp4, copy-all configured, video
\* kept: the output is conv-a.mp4 and the command maps all video streams.
C13_Witness ==
    /\ CmdBuilt /\ call.input_path = a_avi /\ ~args.force_mp4
    /\ call.output_path.suffix = ext_mp4
    /\ ~call.convert_video
    /\ Positions(call.cmd, "0:v") # {}

-----------------------------------------------------------------------------
(* The subtitle pipeline *)

\* what the external tools and the file system do in one call of
\* copy_subtitle_if_exists: the answer of `file --mime-encoding` (or its failure
\* to start), and the result of the write (iconv, or the open/read/write copy)
SubtitleOutcomes ==
    [detect : {"windows-1250", "unknown-8bit", "utf-8", "raise"},
     write : {"ok", "error", "error_partial"}]

\* a slip: only OSError is caught, so the converter's CalledProcessError escapes
SubtitleError_CaughtOSErrorOnly(failure, written) ==
    [raised |-> failure = "convert", result |-> "error-logged", failure |-> failure,
     created |-> written]

\* the except clauses of lines 363, 390 and 394: the error is logged and the
\* function goes on to its return
SubtitleError(failure, written) ==
    [raised |-> FALSE, result |-> "error-logged", failure |-> failure,
     created |-> written]

\* files: the paths that exist; returns whether an exception leaves the
\* function, what was done, which failure happened, and the files written
copy_subtitle_if_exists(input_path, output_path, dry_run, files, ext) ==
    LET utf8_subtitle_path == MkPath(input_path.stem \o utf8_tail, ext_srt)
        fallback_srt == with_suffix(input_path, ext_srt)
        output_srt == with_suffix(output_path, ext_srt)
        Done(result, created) ==
            [raised |-> FALSE, result |-> result, failure |-> "none",
             created |-> created]
        partial == IF ext.write = "error_partial" THEN {output_srt} ELSE {}
    IN  IF utf8_subtitle_path \in files
        THEN IF ~dry_run
             THEN IF ext.write = "ok"
                  THEN Done("copied", {output_srt})
                  ELSE SubtitleError("copy", partial)
             ELSE Done("dry-run", {})
        ELSE IF fallback_srt \in files
        THEN IF ext.detect = "raise"
             THEN SubtitleError("detect", {})
             ELSE IF ext.detect \in {"unknown-8bit", "windows-1250"}
             THEN IF ~dry_run
                  THEN IF ext.write = "ok"
                       THEN Done("converted", {output_srt})
                       ELSE SubtitleError("convert", partial)
                  ELSE Done("dry-run", {})
             ELSE IF output_srt \notin files
                  THEN IF ~dry_run
                       THEN IF ext.write = "ok"
                            THEN Done("copied", {output_srt})
                            ELSE SubtitleError("copy", partial)
                       ELSE Done("dry-run", {})
                  ELSE Done("kept", {})
        ELSE Done("none", {})

-----------------------------------------------------------------------------
(* process_file *)

\* the external prober on a file of the directory
scan_file(file_path) ==
    IF file_path \in DOMAIN media THEN media[file_path] ELSE ScanFailed

\* "not video_codec": None or the empty string
Falsy(o) == ~IsSome(o) \/ Len(Val(o)) = 0

\* the codec as should_convert receives it (it is called on detected codecs
\* only; a missing one reads as the empty string here)
CodecOf(o) == IF IsSome(o) THEN Val(o) ELSE EmptyStr

\* file_path.suffix.lower() in SUPPORTED_EXTENSIONS
Supported(file_path) == InList(lower(file_path.suffix), SUPPORTED_EXTENSIONS)

Returns(ret, reason, events) ==
    [kind |-> "return", ret |-> ret, reason |-> reason, events |-> events]

\* a slip: only a missing video codec makes the file undetectable
Undetectable_VideoOnly(codecs) == Falsy(codecs.video_codec)

\* line 560: not video_codec or not audio_codec
Undetectable(codecs) == Falsy(codecs.video_codec) \/ Falsy(codecs.audio_codec)

\* a slip: force mode converts again although the output exists
OutputExists_UnlessForced(file_path, files) ==
    ~args.force_mode_enabled /\ output_path_of(file_path, args.force_mp4) \in files

\* a slip: the name looked for keeps the input's extension
OutputExists_InputExt(file_path, files) ==
    MkPath(conv_prefix \o file_path.stem, file_path.suffix) \in files

\* line 551: output_path.exists()
OutputExists(file_path, files) == output_path_of(file_path, args.force_mp4) \in files

\* a slip: the dry-run return of convert_file comes after the encoder call
ConvertFileDryRun_AfterEncoder(dry_run) == FALSE

\* lines 522-524: in a dry run convert_file returns once the command is built
ConvertFileDryRun(dry_run) == dry_run

\* a slip: build_audio_args probes whether or not audio is converted
ScanCalls_ProbeInEveryAudioBlock(convert_audio) == <<"probe", "decide", "probe">>

\* the calls process_file has made when the command is built: scan_file (555),
\* should_convert (568) and, only when audio is converted, the scan_func call
\* of build_audio_args (line 441)
ScanCalls(convert_audio) ==
    IF convert_audio THEN <<"probe", "decide", "probe">> ELSE <<"probe", "decide">>

\* process_file with convert_file up to the encoder call: either it returns
\* (False: a skip with its reason; True: a dry run), or the encoder is to be run
\* on the command.  events are the probe calls and the decision, in order.
process_file(file_path, files) ==
    LET output_path == output_path_of(file_path, args.force_mp4)
        codecs == scan_file(file_path)
        video_codec == codecs.video_codec
        audio_codec == codecs.audio_codec
        dec == should_convert(CodecOf(video_codec), CodecOf(audio_codec),
                              codecs.bitrate_kbps, args.max_video_bitrate,
                              args.force_mode_enabled)
        cmd == convert_file_cmd(file_path, output_path, dec[1], dec[2], CodecOf(audio_codec),
                                args.CRF, dec[3], args.max_video_bitrate,
                                scan_file(file_path))
        events == ScanCalls(dec[2])
    IN  IF HasConvPrefix(file_path) THEN Returns(FALSE, "already-converted", <<>>)
        ELSE IF ~Supported(file_path) THEN Returns(FALSE, "no-ext", <<>>)
        ELSE IF OutputExists(file_path, files)
             THEN Returns(FALSE, "output-exists", <<>>)
        ELSE IF Undetectable(codecs)
             THEN Returns(FALSE, "undetectable-codec", <<"probe">>)
        ELSE IF ~dec[1] /\ ~dec[2]
             THEN Returns(FALSE, "already-correct", <<"probe", "decide">>)
        ELSE IF ConvertFileDryRun(args.dry_run)
             THEN [kind |-> "return", ret |-> TRUE, reason |-> "dry-run",
                   events |-> events, cmd |-> cmd]
             ELSE [kind |-> "encode", events |-> events, cmd |-> cmd,
                   output_path |-> output_path]

-----------------------------------------------------------------------------
(* The batch driver: the main block run over one directory *)

a_mp4 == MkPath(<<"a">>, ext_mp4)
a_srt == MkPath(<<"a">>, ext_srt)
b_srt == MkPath(<<"b">>, ext_srt)
b_utf8_srt == MkPath(<<"b">> \o utf8_tail, ext_srt)
conv_b_mkv == MkPath(conv_prefix \o <<"b">>, ext_mkv)

\* the media files of the directory; a.avi and a.mp4 share their stem
InputFiles == {a_avi, a_mp4, b_mkv}

\* the paths the driver may be given: the media files, a converted file and a
\* subtitle file (given as the single input file)
Tracked == InputFiles \cup {conv_b_mkv, b_srt}

dBoth == Descriptor(Some(MPEG4_XVID), Some(DTS), 1500000, TRUE, ChInt(6), Some("48000"))
dVideo == Descriptor(Some(MPEG4_XVID), Some(AC3), 1500000, TRUE, ChInt(2), Some("48000"))
dBitrate == Descriptor(Some(HEVC), Some(AAC), 2500000, TRUE, ChInt(2), Some("48000"))
dCorrect == Descriptor(Some(HEVC), Some(AAC), 1500000, TRUE, ChInt(2), Some("48000"))
\* the audio probe failed after the video codec was read
dNoAudio == Descriptor(Some(H264), Absent, 0, FALSE, ChNone, Absent)
\* no video stream, an audio stream
dNoVideo == Descriptor(Absent, Some(AAC), 0, TRUE, ChInt(2), Some("48000"))
\* an audio stream without a codec_name: stream.get("codec_name", "") is ""
dEmptyAudio == Descriptor(Some(H264), Some(EmptyStr), 1500000, TRUE, ChInt(2), Some("48000"))

\* the directories of the model: their media files with what the prober
\* reports on each, and what else they hold (subtitle sidecars, an output left
\* by an earlier, possibly interrupted, run)
Layouts ==
    {[media |-> (a_avi :> da) @@ (a_mp4 :> dm), extra |-> extra] :
        da \in {dBoth, dVideo, dBitrate, dCorrect, dNoAudio, dNoVideo, ScanFailed},
        dm \in {dBoth, dCorrect},
        extra \in {{}, {a_srt}}}
    \cup
    {[media |-> (a_avi :> da) @@ (b_mkv :> db), extra |-> extra] :
        da \in {dBoth, dCorrect, dNoAudio},
        db \in {dBoth, dVideo, dEmptyAudio},
        extra \in {{}, {b_srt}, {b_utf8_srt, b_srt}, {conv_b_mkv}}}

\* rglob("*") with the filter of line 704, or the single input file
Listing(files) ==
    IF args.is_file THEN {args.input_path}
    ELSE {f \in files : ~HasConvPrefix(f) /\ Supported(f)}

Keys == (1..MaxPasses) \X Tracked

NoCounts == [total_files |-> 0, converted |-> 0, skipped |-> 0, failed |-> 0]

Init ==
    /\ cfg = CfgShipped
    /\ \E layout \in Layouts :
          /\ media = layout.media
          /\ fs = DOMAIN layout.media \cup layout.extra
    /\ \E dry \in BOOLEAN, f \in BOOLEAN, mp4 \in BOOLEAN, subs \in BOOLEAN,
          input \in {<<FALSE, a_avi>>} \cup ({TRUE} \X ({b_mkv, conv_b_mkv, b_srt} \cap fs)) :
          args = [ArgsDefault EXCEPT !.dry_run = dry, !.force_mode_enabled = f,
                                     !.force_mp4 = mp4, !.max_video_bitrate = 2000,
                                     !.is_file = input[1], !.subs_only = subs]
                    @@ [input_path |-> input[2]]
    /\ call = NoCall
    /\ history = <<>>
    /\ pass = 1
    /\ pending = Listing(fs)
    /\ cur = [pc |-> "idle"]
    /\ counters = NoCounts
    /\ converted_files = <<>>
    /\ failed_files = <<>>
    /\ calls = [k \in Keys |-> <<>>]
    /\ outcome = [k \in Keys |-> [state |-> "PENDING", reason |-> "none", nth |-> 0]]

Ev(op, result) == [op |-> op, result |-> result]

\* the events of process_file as records
Evs(ops) == [i \in 1..Len(ops) |-> Ev(ops[i], "ok")]

\* lines 693-695 and 709-711: the entry appended to converted_files after the
\* probe made for the report
ReportEntry(file) ==
    LET codecs == scan_file(file)
    IN  <<PathStr(file), codecs.video_codec, codecs.audio_codec, codecs.bitrate_kbps>>

\* one iteration of the loop of lines 703-717 (or the single file of lines
\* 688-701) up to the encoder call
ProcessFile ==
    \E file \in pending :
        LET r == process_file(file, fs)
            k == <<pass, file>>
        IN  /\ ~args.subs_only
            /\ cur.pc = "idle"
            /\ pending' = pending \ {file}
            /\ IF r.kind = "encode"
               THEN /\ cur' = [pc |-> "encoder", file |-> file,
                               output_path |-> r.output_path, cmd |-> r.cmd]
                    /\ calls' = [calls EXCEPT ![k] = @ \o Evs(r.events)]
                    /\ counters' = [counters EXCEPT !.total_files = @ + 1]
                    /\ UNCHANGED <<converted_files, outcome>>
               ELSE IF r.ret
               THEN \* a dry run: process_file returned True
                    /\ calls' = [calls EXCEPT ![k] = @ \o Evs(r.events) \o <<Ev("probe", "ok")>>]
                    /\ counters' = [counters EXCEPT !.total_files = @ + 1,
                                                    !.converted = @ + 1]
                    /\ converted_files' = Append(converted_files, ReportEntry(file))
                    /\ outcome' = [outcome EXCEPT ![k] =
                                      [state |-> "CONVERTED", reason |-> r.reason,
                                       nth |-> counters.total_files + 1]]
                    /\ UNCHANGED cur
               ELSE /\ calls' = [calls EXCEPT ![k] = @ \o Evs(r.events)]
                    /\ counters' = [counters EXCEPT !.total_files = @ + 1,
                                                    !.skipped = @ + 1]
                    /\ outcome' = [outcome EXCEPT ![k] =
                                      [state |-> "SKIPPED", reason |-> r.reason,
                                       nth |-> counters.total_files + 1]]
                    /\ UNCHANGED <<cur, converted_files>>
            /\ UNCHANGED <<cfg, args, call, history, fs, media, pass, failed_files>>

\* a slip: the try statement encloses the loop, so a failure ends the run
MainExcept_EndsRun(file) ==
    /\ counters' = [counters EXCEPT !.failed = @ + 1]
    /\ failed_files' = Append(failed_files, PathStr(file))
    /\ outcome' = [outcome EXCEPT ![<<pass, file>>] =
                      [state |-> "FAILED", reason |-> "error", nth |-> counters.total_files]]
    /\ cur' = [pc |-> "idle"]
    /\ pending' = {}
    /\ UNCHANGED converted_files

\* a slip: the failure is counted and the path is not listed
MainExcept_CountOnly(file) ==
    /\ counters' = [counters EXCEPT !.failed = @ + 1]
    /\ outcome' = [outcome EXCEPT ![<<pass, file>>] =
                      [state |-> "FAILED", reason |-> "error", nth |-> counters.total_files]]
    /\ cur' = [pc |-> "idle"]
    /\ UNCHANGED <<converted_files, failed_files, pending>>

\* the except clause of lines 714-717 (698-701 for a single file)
MainExcept(file) ==
    /\ counters' = [counters EXCEPT !.failed = @ + 1]
    /\ failed_files' = Append(failed_files, PathStr(file))
    /\ outcome' = [outcome EXCEPT ![<<pass, file>>] =
                      [state |-> "FAILED", reason |-> "error", nth |-> counters.total_files]]
    /\ cur' = [pc |-> "idle"]
    /\ UNCHANGED <<converted_files, pending>>

\* lines 708-711 after process_file returned True
MainConverted(file) ==
    /\ counters' = [counters EXCEPT !.converted = @ + 1]
    /\ converted_files' = Append(converted_files, ReportEntry(file))
    /\ outcome' = [outcome EXCEPT ![<<pass, file>>] =
                      [state |-> "CONVERTED", reason |-> "encoded",
                       nth |-> counters.total_files]]
    /\ cur' = [pc |-> "idle"]
    /\ UNCHANGED <<failed_files, pending>>

\* subprocess.run(cmd, check=True) of line 528: the encoder exits 0 and has
\* written the output, or exits non-zero, having left a partial output or none
RunEncoder ==
    \E exit \in {"ok", "error", "error_partial"} :
        /\ cur.pc = "encoder"
        /\ calls' = [calls EXCEPT ![<<pass, cur.file>>] = Append(@, Ev("encode", exit))]
        /\ IF exit = "ok"
           THEN /\ fs' = fs \cup {cur.output_path}
                /\ cur' = [cur EXCEPT !.pc = "subtitles"]
                /\ UNCHANGED <<counters, converted_files, failed_files, outcome, pending>>
           ELSE /\ fs' = fs \cup (IF exit = "error_partial" THEN {cur.output_path} ELSE {})
                /\ MainExcept(cur.file)
        /\ UNCHANGED <<cfg, args, call, history, media, pass>>

\* line 536 and the return to the main loop
CopySubtitle ==
    \E ext \in SubtitleOutcomes :
        LET r == copy_subtitle_if_exists(cur.file, cur.output_path, args.dry_run, fs, ext)
        IN  /\ cur.pc = "subtitles"
            /\ fs' = fs \cup r.created
            /\ IF r.raised
               THEN /\ calls' = [calls EXCEPT ![<<pass, cur.file>>] =
                                    Append(@, Ev("subtitle", r.failure))]
                    /\ MainExcept(cur.file)
               ELSE /\ calls' = [calls EXCEPT ![<<pass, cur.file>>] =
                                    @ \o <<Ev("subtitle", r.failure), Ev("probe", "ok")>>]
                    /\ MainConverted(cur.file)
            /\ UNCHANGED <<cfg, args, call, history, media, pass>>

\* one iteration of the loop of process_subtitles_only (lines 603-630):
\* counted tells whether total_files is incremented, converted whether
\* converted_subs is, created the files written
process_subtitles_only(file, dry_run, files, ext) ==
    LET base_srt == with_suffix(file, ext_srt)
        utf8_srt == MkPath(file.stem \o utf8_tail, ext_srt)
        Result(counted, converted, events, created) ==
            [counted |-> counted, converted |-> converted, events |-> events,
             created |-> created]
    IN  IF ~Supported(file) \/ HasConvPrefix(file) THEN Result(FALSE, FALSE, <<>>, {})
        ELSE IF utf8_srt \in files THEN Result(FALSE, FALSE, <<>>, {})
        ELSE IF base_srt \in files
        THEN IF ext.detect = "raise"
             THEN Result(TRUE, FALSE, <<Ev("detect", "error")>>, {})
             ELSE IF ext.detect \in {"unknown-8bit", "windows-1250"}
             THEN IF ~dry_run
                  THEN IF ext.write = "ok"
                       THEN Result(TRUE, TRUE, <<Ev("detect", "ok"), Ev("iconv", "ok")>>,
                                   {utf8_srt})
                       ELSE Result(TRUE, FALSE,
                                   <<Ev("detect", "ok"), Ev("iconv", ext.write)>>,
                                   IF ext.write = "error_partial" THEN {utf8_srt} ELSE {})
                  ELSE Result(TRUE, TRUE, <<Ev("detect", "ok")>>, {})
             ELSE Result(TRUE, FALSE, <<Ev("detect", "ok")>>, {})
        ELSE Result(TRUE, FALSE, <<>>, {})

\* -s: lines 674-676, one file of the loop; total_files and converted of the
\* counters stand for the function's total_files and converted_subs
SubtitlesOnly ==
    \E file \in pending, ext \in SubtitleOutcomes :
        LET r == process_subtitles_only(file, args.dry_run, fs, ext)
        IN  /\ args.subs_only
            /\ cur.pc = "idle"
            /\ pending' = pending \ {file}
            /\ fs' = fs \cup r.created
            /\ calls' = [calls EXCEPT ![<<pass, file>>] = @ \o r.events]
            /\ counters' = [counters EXCEPT
                              !.total_files = IF r.counted THEN @ + 1 ELSE @,
                              !.converted = IF r.converted THEN @ + 1 ELSE @]
            /\ UNCHANGED <<cfg, args, call, history, media, pass, cur,
                           converted_files, failed_files, outcome>>

RunComplete == cur.pc = "idle" /\ pending = {}

\* the driver is started again with the same options on the same directory
RunAgain ==
    /\ RunComplete
    /\ pass < MaxPasses
    /\ pass' = pass + 1
    /\ pending' = Listing(fs)
    /\ counters' = NoCounts
    /\ converted_files' = <<>>
    /\ failed_files' = <<>>
    /\ UNCHANGED <<cfg, args, call, history, fs, media, cur, calls, outcome>>

Next == ProcessFile \/ RunEncoder \/ CopySubtitle \/ SubtitlesOnly \/ RunAgain

Spec == Init /\ [][Next]_vars

-----------------------------------------------------------------------------
(* Claims about the batch driver *)

\* the operations logged for a file in a pass
Ops(k) == {calls[k][i].op : i \in 1..Len(calls[k])}

\* the probe result lacks the video codec or the audio codec
NoCodec(d) ==
    \/ d.video_codec = Absent \/ d.audio_codec = Absent
    \/ d.video_codec = Some(EmptyStr) \/ d.audio_codec = Some(EmptyStr)

\* C3: a file whose probe result lacks a codec never reaches should_convert,
\* the encoder or the subtitle pipeline, and ends as a skip, in force mode too.
C3_UndetectableSkipped ==
    \A k \in Keys :
        (k[2] \in DOMAIN media /\ NoCodec(media[k[2]])) =>
            /\ Ops(k) \cap {"decide", "encode", "subtitle"} = {}
            /\ outcome[k].state \in {"PENDING", "SKIPPED"}

\* C3 witness: force mode, a file whose audio probe failed is probed once and
\* skipped as undetectable.
C3_Witness ==
    /\ args.force_mode_enabled
    /\ media[a_avi] = dNoAudio
    /\ calls[<<1, a_avi>>] = <<Ev("probe", "ok")>>
    /\ outcome[<<1, a_avi>>].state = "SKIPPED"
    /\ outcome[<<1, a_avi>>].reason = "undetectable-codec"

\* C4: handling a file named conv-*, or whose output path exists, is a skip
\* with no probe, no decision and no encoder call for it, in every mode that
\* goes through process_file (-s does not).
C4_ResumabilitySkipWithoutProbe ==
    [][\A f \in pending :
          (~args.subs_only /\ f \notin pending'
             /\ (HasConvPrefix(f) \/ output_path_of(f, args.force_mp4) \in fs))
          => /\ calls'[<<pass, f>>] = <<>>
             /\ outcome'[<<pass, f>>].state = "SKIPPED"
             /\ counters'.skipped = counters.skipped + 1
             /\ cur'.pc = "idle"
             /\ fs' = fs]_vars

\* C4 witness: force mode, b.mkv with an output conv-b.mkv left by an earlier
\* run: skipped in the first pass with no call made for it.
C4_Witness ==
    /\ args.force_mode_enabled /\ ~args.force_mp4
    /\ conv_b_mkv \in fs
    /\ outcome[<<1, b_mkv>>].state = "SKIPPED"
    /\ outcome[<<1, b_mkv>>].reason = "output-exists"
    /\ calls[<<1, b_mkv>>] = <<>>

\* a file named conv-* given as the single input file
C4_ConvPrefixReached ==
    /\ args.is_file /\ args.input_path = conv_b_mkv
    /\ outcome[<<1, conv_b_mkv>>].state = "SKIPPED"
    /\ outcome[<<1, conv_b_mkv>>].reason = "already-converted"
    /\ calls[<<1, conv_b_mkv>>] = <<>>

EncoderFailed(k) ==
    \E i \in 1..Len(calls[k]) : calls[k][i].op = "encode" /\ calls[k][i].result # "ok"

\* C6: a file whose encoder run exits non-zero is counted and listed as failed
\* once, is not converted, gets no subtitle handling and no second encoder run
\* in that pass, and the pass still handles every other eligible file.
C6_EncoderFailureRecorded ==
    \A k \in Keys :
        EncoderFailed(k) =>
            /\ outcome[k].state = "FAILED"
            /\ "subtitle" \notin Ops(k)
            /\ Cardinality({i \in 1..Len(calls[k]) : calls[k][i].op = "encode"}) = 1
            /\ k[1] = pass =>
                  /\ Cardinality({i \in 1..Len(failed_files) :
                                     failed_files[i] = PathStr(k[2])}) = 1
                  /\ \A i \in 1..Len(converted_files) :
                        converted_files[i][1] # PathStr(k[2])
                  /\ counters.failed = Len(failed_files)
                  /\ counters.converted = Len(converted_files)
                  /\ cur.pc = "idle" =>
                        \A f \in Listing(fs) :
                            f \in pending \/ outcome[<<pass, f>>].state # "PENDING"
                  /\ RunComplete =>
                        \A f \in Listing(fs) : outcome[<<pass, f>>].state # "PENDING"

\* C6 witness: the first file of a directory run failed in the encoder, the
\* second one was converted after it.
C6_Witness ==
    /\ ~args.is_file /\ RunComplete /\ pass = 1
    /\ EncoderFailed(<<1, a_avi>>)
    /\ outcome[<<1, a_avi>>].state = "FAILED" /\ outcome[<<1, a_avi>>].nth = 1
    /\ outcome[<<1, b_mkv>>].state = "CONVERTED" /\ outcome[<<1, b_mkv>>].nth = 2
    /\ failed_files = <<PathStr(a_avi)>>
    /\ counters.failed = 1

SubtitleFailed(k) ==
    \E i \in 1..Len(calls[k]) : calls[k][i].op = "subtitle" /\ calls[k][i].result # "none"

\* C7: a failure in the subtitle pipeline after a successful encoder run
\* leaves the file converted: it is counted and listed as converted, not as
\* failed.
C7_SubtitleFailureContained ==
    \A k \in Keys :
        SubtitleFailed(k) =>
            /\ outcome[k].state = "CONVERTED"
            /\ Ev("encode", "ok") \in {calls[k][i] : i \in 1..Len(calls[k])}
            /\ k[1] = pass =>
                  /\ \E i \in 1..Len(converted_files) :
                        converted_files[i][1] = PathStr(k[2])
                  /\ \A i \in 1..Len(failed_files) : failed_files[i] # PathStr(k[2])

\* C7 witness: the converter failed on b.srt after b.mkv was encoded; b.mkv is
\* converted.
C7_Witness ==
    /\ Ev("subtitle", "convert") \in {calls[<<1, b_mkv>>][i] : i \in 1..Len(calls[<<1, b_mkv>>])}
    /\ outcome[<<1, b_mkv>>].state = "CONVERTED"
    /\ counters.failed = 0

\* the other subtitle failures are reached: detection and copy
C7_OtherFailuresReached ==
    /\ \E k \in Keys : Ev("subtitle", "detect") \in {calls[k][i] : i \in 1..Len(calls[k])}
    /\ \E k \in Keys : Ev("subtitle", "copy") \in {calls[k][i] : i \in 1..Len(calls[k])}

\* the operations logged for a file in a pass, in order
OpSeq(k) == [i \in 1..Len(calls[k]) |-> calls[k][i].op]

\* the probes among them
ProbeCount(k) == Cardinality({i \in 1..Len(calls[k]) : calls[k][i].op = "probe"})

\* C14 as claimed: a converted file was probed exactly three times: before the
\* decision, while the command was built, and after the conversion.
C14_ThreeProbesPerConvertedFile ==
    \A k \in Keys :
        outcome[k].state = "CONVERTED" =>
            /\ ProbeCount(k) = 3
            /\ OpSeq(k)[1] = "probe" /\ OpSeq(k)[2] = "decide" /\ OpSeq(k)[3] = "probe"
            /\ OpSeq(k)[Len(OpSeq(k))] = "probe"

\* the audio stream of the file is converted: force mode, or a codec of the
\* shipped forced list
AudioConverted(f) ==
    args.force_mode_enabled \/ upper(Val(media[f].audio_codec)) \in {DTS, TRUEHD}

\* C14 as amended: a converted file was probed before the decision and after
\* the conversion, and once in between, while the command was built, exactly
\* when its audio is converted: three probes then, two when only the video is
\* converted.
C14_ProbesPerConvertedFile ==
    \A k \in Keys :
        outcome[k].state = "CONVERTED" =>
            LET head == IF AudioConverted(k[2]) THEN <<"probe", "decide", "probe">>
                        ELSE <<"probe", "decide">>
                run == IF args.dry_run THEN <<>> ELSE <<"encode", "subtitle">>
            IN  OpSeq(k) = head \o run \o <<"probe">>

\* C14 witness: a.avi with both streams converted by the encoder: probe,
\* decision, probe, encoder, subtitles, probe.
C14_Witness ==
    /\ ~args.dry_run /\ ~args.force_mode_enabled
    /\ media[a_avi] = dBoth
    /\ outcome[<<1, a_avi>>].state = "CONVERTED"
    /\ ProbeCount(<<1, a_avi>>) = 3
    /\ OpSeq(<<1, a_avi>>) = <<"probe", "decide", "probe", "encode", "subtitle", "probe">>

\* a file whose video only is converted: two probes
C14_VideoOnlyReached ==
    /\ media[a_avi] = dVideo
    /\ outcome[<<1, a_avi>>].state = "CONVERTED"
    /\ ProbeCount(<<1, a_avi>>) = 2

\* the operations that run the encoder or write a subtitle file
WritingOps == {"encode", "iconv"}

\* C15: in a dry run no step changes the set of files, runs the encoder or the
\* subtitle converter, or enters the subtitle pipeline of a conversion.
C15_DryRunWritesNothing ==
    [][args.dry_run =>
          /\ fs' = fs
          /\ cur'.pc = "idle"
          /\ \A k \in Keys :
                \A i \in 1..Len(calls'[k]) :
                    calls'[k][i].op \notin WritingOps \cup {"subtitle"}]_vars

\* C15 witness: a dry run over a directory with a subtitle sidecar has counted
\* a file as converted; the directory holds no conv-* file.
C15_Witness ==
    /\ args.dry_run /\ ~args.subs_only /\ RunComplete
    /\ b_srt \in fs
    /\ outcome[<<1, b_mkv>>].state = "CONVERTED"
    /\ \A f \in fs : ~HasConvPrefix(f)

\* a dry run of -s on a subtitle that needs conversion: counted, not written
C15_SubsOnlyReached ==
    /\ args.dry_run /\ args.subs_only /\ RunComplete
    /\ a_srt \in fs
    /\ counters.converted >= 1
    /\ MkPath(<<"a">> \o utf8_tail, ext_srt) \notin fs

-----------------------------------------------------------------------------
(* scan_file: the bitrate of the video stream (lines 248-304) *)

\* what one prober call gives: it raised (non-zero exit, prober missing), or
\* its output after .decode().strip().splitlines(), a sequence of lines
Raised == [raised |-> TRUE, lines |-> <<>>]
Output(lines) == [raised |-> FALSE, lines |-> lines]

txt_NA == <<"N", "/", "A">>
txt_0 == <<"0">>
txt_1500000 == <<"1", "5", "0", "0", "0", "0", "0">>
txt_2500000 == <<"2", "5", "0", "0", "0", "0", "0">>

\* str.isdigit()
isdigit(s) == Len(s) > 0 /\ \A i \in 1..Len(s) : s[i] \in Digits

\* int() of a string of digits
RECURSIVE int(_)
int(s) == IF Len(s) = 0 THEN 0 ELSE int(SubSeq(s, 1, Len(s) - 1)) * 10 + DigitVal(s[Len(s)])

\* bits per second / 1_000, in thousandths of a kbps
KbpsOfBps(bps) == (bps \div 1000) * KbpsUnit + ((bps % 1000) * KbpsUnit) \div 1000

\* outputs of the prober asked for stream=bit_rate or stream_tags=BPS
BitrateOutputs ==
    {Raised, Output(<<>>), Output(<<txt_NA>>), Output(<<txt_0>>), Output(<<txt_1500000>>),
     Output(<<txt_2500000, txt_2500000>>)}

\* outputs of the prober asked for format=duration, with float() of each:
\* a number of seconds, or ValueError
DurationOutputs ==
    {Raised, Output(<<>>), Output(<<txt_NA>>), Output(<<<<"0", ".", "0">>>>),
     Output(<<<<"2", ".", "0">>>>), Output(<<<<"4", ".", "0">>>>)}

\* float(duration_str) for the duration texts above: Absent is ValueError
float(lines) ==
    IF Len(lines) # 1 THEN Absent
    ELSE IF lines[1] = <<"0", ".", "0">> THEN Some(0)
    ELSE IF lines[1] = <<"2", ".", "0">> THEN Some(2)
    ELSE IF lines[1] = <<"4", ".", "0">> THEN Some(4)
    ELSE Absent

\* file_path.stat().st_size in bytes; Absent: stat raises
FileSizes == {Absent, Some(0), Some(500000), Some(750000)}

\* lines 252-265: Absent when the call raised or gave no number
BitrateFromStream(out) ==
    IF out.raised THEN Absent
    ELSE IF Len(out.lines) > 0 /\ isdigit(out.lines[1])
         THEN Some(KbpsOfBps(int(out.lines[1])))
         ELSE Absent

\* lines 268-282: bps_output is the whole stripped output, so several lines
\* are not a number
BitrateFromTag(out) ==
    IF out.raised THEN Absent
    ELSE IF Len(out.lines) = 1 /\ isdigit(out.lines[1])
         THEN Some(KbpsOfBps(int(out.lines[1])))
         ELSE Absent

\* lines 285-304: float() or the division or stat() may raise; the sizes and
\* durations of the model divide exactly
BitrateFromSize(out, size) ==
    IF out.raised THEN Absent
    ELSE LET duration == float(out.lines) IN
         IF ~IsSome(duration) THEN Absent
         ELSE IF ~IsSome(size) THEN Absent
         ELSE IF Val(duration) = 0 THEN Absent
         ELSE Some(KbpsOfBps((Val(size) * 8) \div Val(duration)))

\* a slip: no fallback to size and duration
resolve_bitrate_NoFallback(stream_out, tag_out, duration_out, size) ==
    LET r1 == BitrateFromStream(stream_out)
        r2 == BitrateFromTag(tag_out)
    IN  IF IsSome(r1) THEN [tried |-> <<1>>, bitrate_kbps |-> Val(r1)]
        ELSE IF IsSome(r2) THEN [tried |-> <<1, 2>>, bitrate_kbps |-> Val(r2)]
        ELSE [tried |-> <<1, 2>>, bitrate_kbps |-> 0]

\* lines 248-304: the sources tried, in order, and result["bitrate_kbps"]
resolve_bitrate(stream_out, tag_out, duration_out, size) ==
    LET r1 == BitrateFromStream(stream_out)
        r2 == BitrateFromTag(tag_out)
        r3 == BitrateFromSize(duration_out, size)
    IN  IF IsSome(r1) THEN [tried |-> <<1>>, bitrate_kbps |-> Val(r1)]
        ELSE IF IsSome(r2) THEN [tried |-> <<1, 2>>, bitrate_kbps |-> Val(r2)]
        ELSE IF IsSome(r3) THEN [tried |-> <<1, 2, 3>>, bitrate_kbps |-> Val(r3)]
        ELSE [tried |-> <<1, 2, 3>>, bitrate_kbps |-> 0]

\* scan_file as far as the bitrate goes: the codec probes of lines 219 and
\* 236-238 come first inside the same try, so when one of them raises the
\* bitrate is never looked for and stays 0 (208, 307-310)
scan_file_bitrate(codec_probes_raise, stream_out, tag_out, duration_out, size) ==
    IF codec_probes_raise THEN [tried |-> <<>>, bitrate_kbps |-> 0]
    ELSE resolve_bitrate(stream_out, tag_out, duration_out, size)

InitScan ==
    /\ cfg = CfgShipped
    /\ args = ArgsDefault
    /\ call = NoCall
    /\ history = <<>>
    /\ BatchIdle

\* one call of scan_file on a file, the prober answering as drawn
ScanFile ==
    \E codec_probes_raise \in BOOLEAN, stream_out \in BitrateOutputs,
       tag_out \in BitrateOutputs, duration_out \in DurationOutputs, size \in FileSizes :
        /\ call = NoCall
        /\ call' = [fn |-> "scan_file",
                    codec_probes_raise |-> codec_probes_raise,
                    stream_out |-> stream_out, tag_out |-> tag_out,
                    duration_out |-> duration_out, size |-> size,
                    result |-> scan_file_bitrate(codec_probes_raise, stream_out, tag_out,
                                                 duration_out, size)]
        /\ UNCHANGED <<cfg, args, history>>
        /\ UNCHANGED batchVars

NextScan == ScanFile

SpecScan == InitScan /\ [][NextScan]_vars

Scanned == call.fn = "scan_file"

\* what the three sources are worth in the call: a number or nothing
StreamValue ==
    IF ~call.stream_out.raised /\ call.stream_out.lines \in
          {<<txt_0>>, <<txt_1500000>>, <<txt_2500000, txt_2500000>>}
    THEN Some(IF call.stream_out.lines[1] = txt_0 THEN 0
              ELSE IF call.stream_out.lines[1] = txt_1500000 THEN 1500000 ELSE 2500000)
    ELSE Absent

TagValue ==
    IF ~call.tag_out.raised /\ call.tag_out.lines \in {<<txt_0>>, <<txt_1500000>>}
    THEN Some(IF call.tag_out.lines[1] = txt_0 THEN 0 ELSE 1500000)
    ELSE Absent

SizeValue ==
    IF ~call.duration_out.raised /\ IsSome(call.size)
          /\ call.duration_out.lines \in {<<<<"2", ".", "0">>>>, <<<<"4", ".", "0">>>>}
    THEN Some(IF call.duration_out.lines[1] = <<"2", ".", "0">>
              THEN Val(call.size) * 4 ELSE Val(call.size) * 2)
    ELSE Absent

\* C16: once the codec probes are through, the bitrate is the value of the
\* first of stream bit_rate, BPS tag, size*8/duration that gives a number, each
\* tried only when those before gave none; a failing source (a raise, N/A, a
\* zero duration, a failed stat) passes on to the next, and the bitrate is 0
\* when none gives a number.
C16_BitrateFromFirstSource ==
    (Scanned /\ ~call.codec_probes_raise) =>
        LET r == call.result IN
        /\ r.tried = IF IsSome(StreamValue) THEN <<1>>
                     ELSE IF IsSome(TagValue) THEN <<1, 2>> ELSE <<1, 2, 3>>
        /\ r.bitrate_kbps = IF IsSome(StreamValue) THEN Val(StreamValue)
                            ELSE IF IsSome(TagValue) THEN Val(TagValue)
                            ELSE IF IsSome(SizeValue) THEN Val(SizeValue)
                            ELSE 0

\* C16 witness: the stream bit_rate is N/A, the tag probe raises, and 500000
\* bytes over 2 seconds give 2000 kbps.
C16_Witness ==
    /\ Scanned /\ ~call.codec_probes_raise
    /\ call.stream_out = Output(<<txt_NA>>) /\ call.tag_out = Raised
    /\ call.duration_out = Output(<<<<"2", ".", "0">>>>) /\ call.size = Some(500000)
    /\ call.result = [tried |-> <<1, 2, 3>>, bitrate_kbps |-> 2000000]

\* a zero duration after two failed sources: nothing escapes, the bitrate is 0
C16_ZeroDurationReached ==
    /\ Scanned /\ ~call.codec_probes_raise
    /\ call.stream_out = Raised /\ call.tag_out = Output(<<txt_NA>>)
    /\ call.duration_out = Output(<<<<"0", ".", "0">>>>) /\ call.size = Some(500000)
    /\ call.result = [tried |-> <<1, 2, 3>>, bitrate_kbps |-> 0]

-----------------------------------------------------------------------------
(* Claims about the driver's bookkeeping *)

\* the files the running pass has handled
Handled == {f \in Tracked : outcome[<<pass, f>>].state # "PENDING"}

\* how often a path is in a list of paths
Occurrences(paths, path) == Cardinality({i \in 1..Len(paths) : paths[i] = path})

ConvertedPaths == [i \in 1..Len(converted_files) |-> converted_files[i][1]]

\* C17: at the end of a run every counted file is in exactly one of SKIPPED,
\* CONVERTED, FAILED; converted + skipped + failed = total files checked; the
\* failed list holds the failed files once each and the converted list the
\* converted files once each.
C17_CountersPartitionTheFiles ==
    (~args.subs_only /\ RunComplete) =>
        /\ counters.converted + counters.skipped + counters.failed = counters.total_files
        /\ counters.total_files = Cardinality(Handled)
        /\ Handled = Listing(fs)
        /\ counters.converted = Len(converted_files)
        /\ counters.failed = Len(failed_files)
        /\ counters.skipped
              = Cardinality({f \in Handled : outcome[<<pass, f>>].state = "SKIPPED"})
        /\ \A f \in Tracked :
              /\ Occurrences(failed_files, PathStr(f))
                    = IF outcome[<<pass, f>>].state = "FAILED" THEN 1 ELSE 0
              /\ Occurrences(ConvertedPaths, PathStr(f))
                    = IF outcome[<<pass, f>>].state = "CONVERTED" THEN 1 ELSE 0

\* C17 witness: a directory run that ended with one file converted and one
\* failed.
C17_Witness ==
    /\ ~args.subs_only /\ ~args.is_file /\ RunComplete
    /\ counters = [total_files |-> 2, converted |-> 1, skipped |-> 0, failed |-> 1]
    /\ Len(converted_files) = 1 /\ Len(failed_files) = 1

\* a run with a skip next to a conversion
C17_SkipReached ==
    /\ ~args.subs_only /\ RunComplete
    /\ counters = [total_files |-> 2, converted |-> 1, skipped |-> 1, failed |-> 0]

\* C18 as claimed: no file is skipped as "output exists" on account of the
\* output of another input file converted earlier in the same pass.
C18_NoSkipForAnotherFilesOutput ==
    \A f \in Tracked, g \in Tracked :
        (/\ f # g
         /\ ~args.dry_run
         /\ outcome[<<pass, g>>].state = "CONVERTED"
         /\ outcome[<<pass, f>>].state = "SKIPPED"
         /\ outcome[<<pass, f>>].reason = "output-exists"
         /\ outcome[<<pass, g>>].nth < outcome[<<pass, f>>].nth)
        => output_path_of(f, args.force_mp4) # output_path_of(g, args.force_mp4)

\* C18 failing case: a.avi and a.mp4 in one directory, both to be converted:
\* a.avi is converted to conv-a.mp4 and a.mp4, handled after it in the same
\* first pass, is skipped for the output conv-a.mp4.
C18_Witness ==
    /\ pass = 1 /\ ~args.dry_run /\ ~args.subs_only
    /\ a_mp4 \in DOMAIN media /\ media[a_mp4] = dBoth
    /\ outcome[<<1, a_avi>>].state = "CONVERTED" /\ outcome[<<1, a_avi>>].nth = 1
    /\ outcome[<<1, a_mp4>>].state = "SKIPPED" /\ outcome[<<1, a_mp4>>].nth = 2
    /\ outcome[<<1, a_mp4>>].reason = "output-exists"
    /\ calls[<<1, a_mp4>>] = <<>>

=============================================================================
